---- MODULE Spec2Model ----
(***************************************************************************)
(* Model of convert_md.py: the line-oriented markdown scanner of main(),   *)
(* render_table() and format_inline().                                     *)
(*                                                                         *)
(* A text (a Python str) is a sequence of tokens.  A token is either one   *)
(* character of the input, or a piece of markup the program emits as a     *)
(* literal ("<ul>", "&lt;", ...).  String concatenation is \o.             *)
(***************************************************************************)
EXTENDS Integers, Sequences, FiniteSets, TLC

VARIABLES pc, lines, out, in_code_block, code_lang, in_table, in_list,
          table_buffer, hist, output_file

vars == <<pc, lines, out, in_code_block, code_lang, in_table, in_list,
          table_buffer, hist, output_file>>

\* ---- bounds ------------------------------------------------------------
MaxLines == 4
MaxGenLen == 5
MaxInlineLen == 5
MaxHashes == 7

\* ---- str helpers -------------------------------------------------------
Whitespace == {" ", "\n", "\t"}

RECURSIVE LStrip(_)
LStrip(s) ==
  IF s # <<>> /\ Head(s) \in Whitespace THEN LStrip(Tail(s)) ELSE s

RECURSIVE RStrip(_)
RStrip(s) ==
  IF s # <<>> /\ s[Len(s)] \in Whitespace
  THEN RStrip(SubSeq(s, 1, Len(s) - 1)) ELSE s

\* str.strip()
Strip(s) == RStrip(LStrip(s))

RECURSIVE LStripChar(_, _)
LStripChar(s, c) ==
  IF s # <<>> /\ Head(s) = c THEN LStripChar(Tail(s), c) ELSE s

RECURSIVE RStripChar(_, _)
RStripChar(s, c) ==
  IF s # <<>> /\ s[Len(s)] = c
  THEN RStripChar(SubSeq(s, 1, Len(s) - 1), c) ELSE s

\* str.strip(c) for a one-character argument: removes every leading and
\* every trailing c
StripChar(s, c) == RStripChar(LStripChar(s, c), c)

\* str.startswith(p)
StartsWith(s, p) == Len(s) >= Len(p) /\ SubSeq(s, 1, Len(p)) = p

\* p in s
Contains(s, p) ==
  \E i \in 1..(Len(s) - Len(p) + 1) : SubSeq(s, i, i + Len(p) - 1) = p

\* s[n:]
Drop(s, n) == SubSeq(s, n + 1, Len(s))

\* str.split(c): the pieces between the occurrences of c, empty ones kept
RECURSIVE SplitAcc(_, _, _)
SplitAcc(s, c, cur) ==
  IF s = <<>> THEN <<cur>>
  ELSE IF Head(s) = c THEN <<cur>> \o SplitAcc(Tail(s), c, <<>>)
  ELSE SplitAcc(Tail(s), c, Append(cur, Head(s)))

Split(s, c) == SplitAcc(s, c, <<>>)

\* html.escape(s), quote=True
EscapeChar(c) ==
  CASE c = "&"  -> "&amp;"
    [] c = "<"  -> "&lt;"
    [] c = ">"  -> "&gt;"
    [] c = "\"" -> "&quot;"
    [] c = "'"  -> "&#x27;"
    [] OTHER    -> c

Escape(s) == [i \in 1..Len(s) |-> EscapeChar(s[i])]

\* ---- format_inline -----------------------------------------------------
Star == "*"
\* the backtick character (a string literal cannot hold it)
Tick == "BACKTICK"

\* positions j >= lo where two asterisks start
BoldClose(t, lo) ==
  {j \in lo..(Len(t) - 1) : t[j] = Star /\ t[j + 1] = Star}

Min(S) == CHOOSE x \in S : \A y \in S : x <= y

\* line 179, the bold substitution: two asterisks, a shortest inner text,
\* two asterisks; leftmost first, scanning from i
RECURSIVE BoldFrom(_, _)
BoldFrom(t, i) ==
  IF i > Len(t) THEN <<>>
  ELSE IF i < Len(t) /\ t[i] = Star /\ t[i + 1] = Star
          /\ BoldClose(t, i + 2) # {}
       THEN LET j == Min(BoldClose(t, i + 2))
            IN  <<"<strong>">> \o SubSeq(t, i + 2, j - 1) \o <<"</strong>">>
                \o BoldFrom(t, j + 2)
       ELSE <<t[i]>> \o BoldFrom(t, i + 1)

\* positions j >= lo holding character c
Occur(t, c, lo) == {j \in lo..Len(t) : t[j] = c}

\* mutant of ItalicFrom: the opening asterisk may touch another asterisk
RECURSIVE ItalicFrom_NoGuard(_, _)
ItalicFrom_NoGuard(t, i) ==
  IF i > Len(t) THEN <<>>
  ELSE IF t[i] = Star /\ Occur(t, Star, i + 1) # {}
       THEN LET j == Min(Occur(t, Star, i + 1))
            IN  <<"<em>">> \o SubSeq(t, i + 1, j - 1) \o <<"</em>">>
                \o ItalicFrom_NoGuard(t, j + 1)
       ELSE <<t[i]>> \o ItalicFrom_NoGuard(t, i + 1)

\* mutant of ItalicFrom: an underscore is taken for an italic marker as well
RECURSIVE ItalicFrom_Underscore(_, _)
ItalicFrom_Underscore(t, i) ==
  IF i > Len(t) THEN <<>>
  ELSE IF /\ t[i] \in {Star, "_"}
          /\ (i = 1 \/ t[i - 1] # t[i])
          /\ (i = Len(t) \/ t[i + 1] # t[i])
          /\ Occur(t, t[i], i + 1) # {}
       THEN LET j == Min(Occur(t, t[i], i + 1))
            IN  <<"<em>">> \o SubSeq(t, i + 1, j - 1) \o <<"</em>">>
                \o ItalicFrom_Underscore(t, j + 1)
       ELSE <<t[i]>> \o ItalicFrom_Underscore(t, i + 1)

\* line 181, the italic substitution: an asterisk neither preceded nor
\* followed by an asterisk, a shortest inner text, an asterisk
RECURSIVE ItalicFrom(_, _)
ItalicFrom(t, i) ==
  IF i > Len(t) THEN <<>>
  ELSE IF /\ t[i] = Star
          /\ (i = 1 \/ t[i - 1] # Star)
          /\ (i = Len(t) \/ t[i + 1] # Star)
          /\ Occur(t, Star, i + 1) # {}
       THEN LET j == Min(Occur(t, Star, i + 1))
            IN  <<"<em>">> \o SubSeq(t, i + 1, j - 1) \o <<"</em>">>
                \o ItalicFrom(t, j + 1)
       ELSE <<t[i]>> \o ItalicFrom(t, i + 1)

\* line 183, the code substitution: a backtick, a shortest inner text, a
\* backtick
RECURSIVE CodeFrom(_, _)
CodeFrom(t, i) ==
  IF i > Len(t) THEN <<>>
  ELSE IF t[i] = Tick /\ Occur(t, Tick, i + 1) # {}
       THEN LET j == Min(Occur(t, Tick, i + 1))
            IN  <<"<code>">> \o SubSeq(t, i + 1, j - 1) \o <<"</code>">>
                \o CodeFrom(t, j + 1)
       ELSE <<t[i]>> \o CodeFrom(t, i + 1)

\* positions j >= lo where "](" starts and a ")" follows the "("
LinkMid(t, lo) ==
  {j \in lo..(Len(t) - 1) :
     t[j] = "]" /\ t[j + 1] = "(" /\ Occur(t, ")", j + 2) # {}}

\* line 185, the link substitution: bracketed label (shortest), then a
\* parenthesised target (shortest)
RECURSIVE LinkFrom(_, _)
LinkFrom(t, i) ==
  IF i > Len(t) THEN <<>>
  ELSE IF t[i] = "[" /\ LinkMid(t, i + 1) # {}
       THEN LET j == Min(LinkMid(t, i + 1))
                k == Min(Occur(t, ")", j + 2))
            IN  <<"<a href=\"">> \o SubSeq(t, j + 2, k - 1) \o <<"\">">>
                \o SubSeq(t, i + 1, j - 1) \o <<"</a>">>
                \o LinkFrom(t, k + 1)
       ELSE <<t[i]>> \o LinkFrom(t, i + 1)

format_inline(text) ==
  LinkFrom(CodeFrom(ItalicFrom(BoldFrom(text, 1), 1), 1), 1)


\* ---- render_table ------------------------------------------------------
Bar == "|"
Dashes == <<"-", "-", "-">>

\* line 194: [c.strip() for c in header_row.strip("|").split("|")]
HeaderCols(header_row) ==
  LET parts == Split(StripChar(header_row, Bar), Bar)
  IN  [i \in 1..Len(parts) |-> Strip(parts[i])]

\* lines 196-198: one <th> per non-empty header cell
RECURSIVE HeaderCells(_)
HeaderCells(cols) ==
  IF cols = <<>> THEN <<>>
  ELSE (IF Head(cols) = <<>> THEN <<>>
        ELSE <<"<th>">> \o format_inline(Head(cols)) \o <<"</th>">>)
       \o HeaderCells(Tail(cols))

\* mutant of DataStart: the delimiter row is never skipped
DataStart_KeepDelimiter(rows) == 2

\* lines 202-204: index (1-based) of the first data row
DataStart(rows) ==
  IF Len(rows) > 1 /\ Contains(rows[2], Dashes) THEN 3 ELSE 2

\* line 217: [c.strip() for c in row.strip().strip("|").split("|")]
CleanCols(row) ==
  LET parts == Split(StripChar(Strip(row), Bar), Bar)
  IN  [i \in 1..Len(parts) |-> Strip(parts[i])]

\* lines 218-219: one <td> per cell, empty cells included
RECURSIVE DataCells(_)
DataCells(cols) ==
  IF cols = <<>> THEN <<>>
  ELSE <<"<td>">> \o format_inline(Head(cols)) \o <<"</td>">>
       \o DataCells(Tail(cols))

\* lines 207-220: the loop over rows[start_idx:]
RECURSIVE DataRows(_)
DataRows(rows) ==
  IF rows = <<>> THEN <<>>
  ELSE <<"<tr>">> \o DataCells(CleanCols(Head(rows))) \o <<"</tr>">>
       \o DataRows(Tail(rows))

render_table(rows) ==
  IF rows = <<>> THEN <<>>
  ELSE <<"<table>", "<thead><tr>">> \o HeaderCells(HeaderCols(rows[1]))
       \o <<"</tr></thead>", "<tbody>">>
       \o DataRows(SubSeq(rows, DataStart(rows), Len(rows)))
       \o <<"</tbody></table>">>

\* ---- main: the fragments ------------------------------------------------
HTML_HEADER == <<"HTML_HEADER">>
HTML_FOOTER == <<"HTML_FOOTER">>
Fence == <<Tick, Tick, Tick>>
DefaultLang == <<"j", "a", "v", "a">>
UlOpen == <<"<ul>">>
UlClose == <<"</ul>">>
CodeClose == <<"</code></pre>">>
Hr == <<"<hr>">>

CodeOpen(lang) == <<"<pre><code class=\"language-">> \o lang \o <<"\">">>
Li(text) == <<"<li>">> \o format_inline(text) \o <<"</li>">>
Para(text) == <<"<p>">> \o format_inline(text) \o <<"</p>">>
Heading(level, text) ==
  <<"<h", ToString(level), ">">> \o format_inline(text)
  \o <<"</h", ToString(level), ">">>

\* ---- main: classification of a trimmed line ----------------------------
IsFence(stripped) == StartsWith(stripped, Fence)
IsTableRow(stripped) == StartsWith(stripped, <<Bar>>)
\* mutant of IsListItem: the space after the dash is not required
IsListItem_AnyDash(stripped) == StartsWith(stripped, <<"-">>)

IsListItem(stripped) == StartsWith(stripped, <<"-", " ">>)
IsHeading(stripped) == StartsWith(stripped, <<"#">>)

\* lines 291-294: length of the leading run of '#'
RECURSIVE HeadingLevel(_)
HeadingLevel(stripped) ==
  IF stripped # <<>> /\ Head(stripped) = "#"
  THEN 1 + HeadingLevel(Tail(stripped)) ELSE 0

\* mutant of IsRule: the prefix alone decides, the other characters are not
\* looked at
IsRule_PrefixOnly(stripped) ==
  StartsWith(stripped, Dashes) \/ StartsWith(stripped, <<Star, Star, Star>>)

\* lines 301-303
IsRule(stripped) ==
  /\ StartsWith(stripped, Dashes) \/ StartsWith(stripped, <<Star, Star, Star>>)
  /\ Len(stripped) >= 3
  /\ \A i \in 1..Len(stripped) : stripped[i] \in {"-", Star, " "}

\* ---- main: the loop body on the parse state ----------------------------
\* the parse state as a record
Cur ==
  [out |-> out, in_code_block |-> in_code_block, code_lang |-> code_lang,
   in_table |-> in_table, in_list |-> in_list, table_buffer |-> table_buffer]

Emit(s, frag) == [s EXCEPT !.out = Append(s.out, frag)]

\* lines 247-255
FenceLine(s, stripped) ==
  IF s.in_code_block
  THEN [Emit(s, CodeClose) EXCEPT !.in_code_block = FALSE]
  ELSE LET lang0 == Strip(Drop(stripped, 3))
           lang == IF lang0 = <<>> THEN DefaultLang ELSE lang0
       IN  [Emit(s, CodeOpen(lang)) EXCEPT !.code_lang = lang,
                                          !.in_code_block = TRUE]

\* mutant of CodeLine: the raw line is appended unescaped
CodeLine_Unescaped(s, raw_line) == Emit(s, raw_line)

\* lines 257-260
CodeLine(s, raw_line) == Emit(s, Escape(raw_line))

\* lines 264-270
TableRow(s, stripped) ==
  LET s1 == IF ~s.in_table
            THEN [(IF s.table_buffer # <<>>
                   THEN [Emit(s, render_table(s.table_buffer))
                           EXCEPT !.table_buffer = <<>>]
                   ELSE s) EXCEPT !.in_table = TRUE]
            ELSE s
  IN  [s1 EXCEPT !.table_buffer = Append(s1.table_buffer, stripped)]

\* mutant of CloseTable: the rendered rows stay in the buffer
CloseTable_NoClear(s) ==
  IF s.in_table
  THEN [Emit(s, render_table(s.table_buffer)) EXCEPT !.in_table = FALSE]
  ELSE s

\* lines 272-275
CloseTable(s) ==
  IF s.in_table
  THEN [Emit(s, render_table(s.table_buffer))
          EXCEPT !.table_buffer = <<>>, !.in_table = FALSE]
  ELSE s

\* mutant of ListItem: every item opens a list of its own
ListItem_AlwaysOpen(s, stripped) ==
  Emit([Emit(s, UlOpen) EXCEPT !.in_list = TRUE], Li(Drop(stripped, 2)))

\* lines 279-283
ListItem(s, stripped) ==
  LET s1 == IF ~s.in_list
            THEN [Emit(s, UlOpen) EXCEPT !.in_list = TRUE]
            ELSE s
  IN  Emit(s1, Li(Drop(stripped, 2)))

\* mutant of CloseList: a line that is no list item leaves the list open
CloseList_Never(s) == s

\* lines 285-287
CloseList(s) ==
  IF s.in_list THEN [Emit(s, UlClose) EXCEPT !.in_list = FALSE] ELSE s

\* mutant of HeadingLine: the level is clamped to 6
HeadingLine_Clamped(s, stripped) ==
  LET run == HeadingLevel(stripped)
      level == IF run > 6 THEN 6 ELSE run
  IN  Emit(s, Heading(level, Strip(Drop(stripped, run))))

\* lines 290-298
HeadingLine(s, stripped) ==
  LET level == HeadingLevel(stripped)
  IN  Emit(s, Heading(level, Strip(Drop(stripped, level))))

\* mutant of PlainLine: a blank line is not skipped and becomes an empty
\* paragraph
PlainLine_BlankParagraph(s, stripped) ==
  IF IsHeading(stripped) THEN HeadingLine(s, stripped)
  ELSE IF IsRule(stripped) THEN Emit(s, Hr)
  ELSE Emit(s, Para(stripped))

\* lines 289-312: what is left once table and list have been dealt with
PlainLine(s, stripped) ==
  IF IsHeading(stripped) THEN HeadingLine(s, stripped)
  ELSE IF IsRule(stripped) THEN Emit(s, Hr)
  ELSE IF stripped = <<>> THEN s
  ELSE Emit(s, Para(stripped))

\* mutant of ScanLine: headings are recognised before the table and list
\* code runs
ScanLine_HeadingFirst(s, line) ==
  LET stripped == Strip(line)
  IN  IF IsFence(stripped) THEN FenceLine(s, stripped)
      ELSE IF s.in_code_block THEN CodeLine(s, line)
      ELSE IF IsHeading(stripped) THEN HeadingLine(s, stripped)
      ELSE IF IsTableRow(stripped) THEN TableRow(s, stripped)
      ELSE LET s1 == CloseTable(s)
           IN  IF IsListItem(stripped) THEN ListItem(s1, stripped)
               ELSE PlainLine(CloseList(s1), stripped)

\* lines 241-312: one iteration of the loop
ScanLine(s, line) ==
  LET stripped == Strip(line)
  IN  IF IsFence(stripped) THEN FenceLine(s, stripped)
      ELSE IF s.in_code_block THEN CodeLine(s, line)
      ELSE IF IsTableRow(stripped) THEN TableRow(s, stripped)
      ELSE LET s1 == CloseTable(s)
           IN  IF IsListItem(stripped) THEN ListItem(s1, stripped)
               ELSE PlainLine(CloseList(s1), stripped)

\* mutant of FlushEnds: the list is closed before the code block
FlushEnds_ListFirst(s) ==
  LET s1 == IF s.in_list THEN Emit(s, UlClose) ELSE s
      s2 == IF s1.in_code_block THEN Emit(s1, CodeClose) ELSE s1
  IN  IF s2.in_table THEN Emit(s2, render_table(s2.table_buffer)) ELSE s2

\* lines 315-317
FlushEnds(s) ==
  LET s1 == IF s.in_code_block THEN Emit(s, CodeClose) ELSE s
      s2 == IF s1.in_list THEN Emit(s1, UlClose) ELSE s1
  IN  IF s2.in_table THEN Emit(s2, render_table(s2.table_buffer)) ELSE s2

\* line 322: "\n".join(out)
RECURSIVE Join(_)
Join(frags) ==
  IF frags = <<>> THEN <<>>
  ELSE IF Len(frags) = 1 THEN frags[1]
  ELSE frags[1] \o <<"\n">> \o Join(Tail(frags))

\* ---- inputs --------------------------------------------------------------
\* a line as readlines() returns it
L(text) == text \o <<"\n">>

Lines ==
  { L(Fence),
    L(Fence \o <<"p", "y">>),
    L(<<Bar, " ", "a", " ", Bar, " ", Bar>>),
    L(<<Bar, "-", "-", "-", Bar>>),
    L(<<"-", " ", Star, "a", Star>>),
    L(<<"-", " ", "-", " ", "-">>),
    L(<<"#", "#", " ", "a">>),
    L(Dashes),
    L(<<>>),
    L(<<" ", "a", "<", Tick, "b", Tick>>) }

RECURSIVE Texts(_, _)
Texts(alphabet, n) ==
  IF n = 0 THEN {<<>>}
  ELSE LET shorter == Texts(alphabet, n - 1)
       IN  shorter \cup {Append(t, c) : t \in shorter, c \in alphabet}

GenAlphabet == {"-", Star, " ", "a"}
GenLines == {L(t) : t \in Texts(GenAlphabet, MaxGenLen)}

NoFile == <<"<no file>">>
\* what an output file left by an earlier run holds
OldFile == <<"<old file>">>

\* ---- the state machine ---------------------------------------------------
\* hist[i] is the parse state the i-th iteration started from, with the line
\* it consumed; the end-of-input flush adds one more entry, with no line
Snapshot(line) ==
  [line |-> line, out_len |-> Len(out), in_code_block |-> in_code_block,
   code_lang |-> code_lang, in_table |-> in_table, in_list |-> in_list,
   table_buffer |-> table_buffer]

Init ==
  /\ pc = "start"
  /\ lines = <<>>
  /\ out = <<>>
  /\ in_code_block = FALSE
  /\ code_lang = <<>>
  /\ in_table = FALSE
  /\ in_list = FALSE
  /\ table_buffer = <<>>
  /\ hist = <<>>
  /\ output_file \in {NoFile, OldFile}

Install(s) ==
  /\ out' = s.out
  /\ in_code_block' = s.in_code_block
  /\ code_lang' = s.code_lang
  /\ in_table' = s.in_table
  /\ in_list' = s.in_list
  /\ table_buffer' = s.table_buffer

\* lines 226-239: the input file is read and the parse state created
OpenOk ==
  /\ pc = "start"
  /\ pc' = "scan"
  /\ out' = <<HTML_HEADER>>
  /\ UNCHANGED <<lines, in_code_block, code_lang, in_table, in_list,
                 table_buffer, hist, output_file>>

\* mutant of OpenFail: the output file is opened for writing before the input
\* is read, and is left empty
OpenFail_Truncates ==
  /\ pc = "start"
  /\ pc' = "error"
  /\ output_file' = <<>>
  /\ UNCHANGED <<lines, out, in_code_block, code_lang, in_table, in_list,
                 table_buffer, hist>>

\* lines 229-231: FileNotFoundError
OpenFail ==
  /\ pc = "start"
  /\ pc' = "error"
  /\ UNCHANGED <<lines, out, in_code_block, code_lang, in_table, in_list,
                 table_buffer, hist, output_file>>

\* lines 241-312: the loop consumes the next line of the document
Step(line) ==
  /\ pc = "scan"
  /\ lines' = Append(lines, line)
  /\ hist' = Append(hist, Snapshot(line))
  /\ Install(ScanLine(Cur, line))
  /\ UNCHANGED <<pc, output_file>>

Scan ==
  /\ Len(lines) < MaxLines
  /\ \E line \in Lines : Step(line)

\* lines 314-324: end of input
Finish ==
  /\ pc = "scan"
  /\ pc' = "done"
  /\ hist' = Append(hist, Snapshot(<<>>))
  /\ LET s == Emit(FlushEnds(Cur), HTML_FOOTER)
     IN  /\ Install(s)
         /\ output_file' = Join(s.out)
  /\ UNCHANGED lines

Next == OpenOk \/ OpenFail \/ Scan \/ Finish

Spec == Init /\ [][Next]_vars

\* Documents made of at most one line of Lines followed by one line over
\* GenAlphabet: every short line of dashes, asterisks, spaces and letters,
\* met in every block state one line can set up.
ScanSetup ==
  /\ lines = <<>>
  /\ \E line \in Lines : Step(line)

ScanGen ==
  /\ \A i \in 1..Len(lines) : i = 1 /\ lines[i] \in Lines \ GenLines
  /\ \E line \in GenLines : Step(line)

NextGen == OpenOk \/ OpenFail \/ ScanSetup \/ ScanGen \/ Finish

SpecGen == Init /\ [][NextGen]_vars

\* Documents of one heading line: '# ' followed by every text over
\* InlineAlphabet or over PlainAlphabet up to MaxInlineLen characters (the
\* argument format_inline is applied to), or 1..MaxHashes '#' followed by
\* one of HeadingTails.
InlineAlphabet == {Star, Tick, "[", "]", "(", ")", "a"}
PlainAlphabet == {"a", "_", "-", "<"}
InlineLines ==
  {L(<<"#", " ">> \o t) : t \in Texts(InlineAlphabet, MaxInlineLen)
                                  \cup Texts(PlainAlphabet, MaxInlineLen)}

Hashes(n) == [i \in 1..n |-> "#"]
HeadingTails ==
  { <<>>, <<"a">>, <<" ", "a", " ">>, <<" ", Star, "a", Star>>,
    <<" ", "a", "#">> }
HeadingLines == {L(Hashes(n) \o tail) : n \in 1..MaxHashes, tail \in HeadingTails}

ScanInline ==
  /\ lines = <<>>
  /\ \E line \in InlineLines : Step(line)

ScanHeading ==
  /\ lines = <<>>
  /\ \E line \in HeadingLines : Step(line)

NextInline == OpenOk \/ ScanInline \/ ScanHeading

SpecInline == Init /\ [][NextInline]_vars

\* ---- what the last step did --------------------------------------------
\* the last step consumed a line
Scanned == pc = "scan" /\ lines # <<>>

\* the parse state the last step started from, and the line it consumed
prev == hist[Len(hist)]
stripped_line == Strip(prev.line)

\* the fragments the last step appended
Added == SubSeq(out, prev.out_len + 1, Len(out))

\* the last step left the block flags and the buffer alone
SameBlockState ==
  /\ in_code_block = prev.in_code_block
  /\ code_lang = prev.code_lang
  /\ in_table = prev.in_table
  /\ in_list = prev.in_list
  /\ table_buffer = prev.table_buffer

\* ---- C1 ------------------------------------------------------------------
\* C1: in every reachable state at most one of in_code_block, in_table and
\* in_list is true.
C1_MutuallyExclusive ==
  /\ ~(in_code_block /\ in_table)
  /\ ~(in_code_block /\ in_list)
  /\ ~(in_table /\ in_list)

\* ---- C2 ------------------------------------------------------------------
\* the last two lines consumed were a line handled as a table row and then
\* a line that is not a table row
RowThenOther ==
  /\ Scanned
  /\ Len(lines) >= 2
  /\ ~hist[Len(hist) - 1].in_code_block
  /\ StartsWith(Strip(lines[Len(lines) - 1]), <<"|">>)
  /\ ~StartsWith(stripped_line, <<"|">>)

\* C2: the line that follows a run of table rows renders the whole buffer as
\* one table fragment, appended before anything else that line appends, and
\* leaves table_buffer empty and in_table false.
C2_TableFlushedByNextLine ==
  RowThenOther =>
    /\ Added # <<>>
    /\ Added[1] = render_table(prev.table_buffer)
    /\ table_buffer = <<>>
    /\ ~in_table

\* ---- C3 ------------------------------------------------------------------
\* C3: with a list open, a line that is not a list item appends '</ul>'
\* before any other fragment and sets in_list false.
C3_ListClosedByNextLine ==
  (Scanned /\ prev.in_list /\ ~StartsWith(stripped_line, <<"-", " ">>)) =>
    /\ Added # <<>>
    /\ Added[1] = <<"</ul>">>
    /\ ~in_list

\* ---- C4 ------------------------------------------------------------------
\* the characters html.escape replaces
MarkupChars == {"&", "<", ">", "\"", "'"}

\* the last step consumed a line that is not a fence while in a code block
CodeLineScanned ==
  Scanned /\ prev.in_code_block /\ ~StartsWith(stripped_line, Fence)

\* C4: inside a code block a line that is not a fence appends exactly one
\* fragment, the raw line with its markup characters escaped and nothing
\* formatted, and leaves the block flags, code_lang and table_buffer alone.
C4_CodeLineVerbatim ==
  CodeLineScanned =>
    /\ Len(Added) = 1
    /\ Len(Added[1]) = Len(prev.line)
    /\ \A i \in 1..Len(prev.line) :
         IF prev.line[i] \in MarkupChars
         THEN Added[1][i] = EscapeChar(prev.line[i])
              /\ Added[1][i] \notin MarkupChars
         ELSE Added[1][i] = prev.line[i]
    /\ SameBlockState

\* a code line that looks like a list item and one that holds markup
\* characters and inline markers have been emitted verbatim
C4_Witness ==
  /\ CodeLineScanned
  /\ \E i \in 1..Len(prev.line) : prev.line[i] \in MarkupChars
  /\ \E i \in 1..Len(prev.line) : prev.line[i] = Tick
  /\ Len(Added) = 1

\* ---- C5 ------------------------------------------------------------------
\* C5: the final flush appends, in this order, the code close if a code
\* block is open, '</ul>' if a list is open, the rendered table if rows are
\* pending, and then the footer.
C5_FinalFlush ==
  pc = "done" =>
    Added = (IF prev.in_code_block THEN <<CodeClose>> ELSE <<>>)
            \o (IF prev.in_list THEN <<UlClose>> ELSE <<>>)
            \o (IF prev.table_buffer # <<>>
                THEN <<render_table(prev.table_buffer)>> ELSE <<>>)
            \o <<HTML_FOOTER>>

\* the flush closed a code block, a list and a table at once
C5_Witness ==
  /\ pc = "done"
  /\ prev.in_code_block /\ prev.in_list /\ prev.in_table
  /\ Len(Added) = 4

\* ---- C6 ------------------------------------------------------------------
\* the last step rendered the pending rows: a line that is neither a fence
\* nor a table row outside a code block, or the end of input
TableFlushed ==
  /\ hist # <<>>
  /\ prev.in_table
  /\ \/ pc = "done"
     \/ /\ Scanned
        /\ ~prev.in_code_block
        /\ ~StartsWith(stripped_line, Fence)
        /\ ~StartsWith(stripped_line, <<"|">>)

\* the table fragment that step appended, and the rows it was made from
FlushedTable == IF pc = "done" THEN Added[Len(Added) - 1] ELSE Added[1]
FlushedRows == prev.table_buffer

Positions(text, token) == {i \in 1..Len(text) : text[i] = token}
Nth(S, k) == CHOOSE x \in S : Cardinality({y \in S : y < x}) = k - 1

\* what lies between the k-th opening token and the k-th closing token
Between(text, open, close, k) ==
  SubSeq(text, Nth(Positions(text, open), k) + 1,
               Nth(Positions(text, close), k) - 1)

\* C6: a rendered table has exactly one header row, made of the cells of
\* row 1; when row 2 holds '---' it yields no output row and rows 3..n+2
\* yield the n data rows in order; otherwise row 2 is the first data row.
C6_TableRows ==
  (TableFlushed /\ Len(FlushedRows) >= 2) =>
    LET F == FlushedTable
        rows == FlushedRows
        skip == IF Contains(rows[2], <<"-", "-", "-">>) THEN 2 ELSE 1
        n == Len(rows) - skip
    IN  /\ Cardinality(Positions(F, "<thead><tr>")) = 1
        /\ Cardinality(Positions(F, "</tr></thead>")) = 1
        /\ Between(F, "<thead><tr>", "</tr></thead>", 1)
             = HeaderCells(HeaderCols(rows[1]))
        /\ Cardinality(Positions(F, "<tr>")) = n
        /\ Cardinality(Positions(F, "</tr>")) = n
        /\ \A k \in 1..n :
             Between(F, "<tr>", "</tr>", k) = DataCells(CleanCols(rows[k + skip]))

\* a table of a header, a delimiter row and two data rows was rendered
C6_Witness ==
  /\ TableFlushed
  /\ Len(FlushedRows) = 4
  /\ Contains(FlushedRows[2], <<"-", "-", "-">>)
  /\ Cardinality(Positions(FlushedTable, "<tr>")) = 2

\* ---- C7 ------------------------------------------------------------------
\* a line the scanner renders as a paragraph when no block is open
ParagraphText(text) ==
  /\ text # <<>>
  /\ ~StartsWith(text, Fence)
  /\ ~StartsWith(text, <<"|">>)
  /\ ~StartsWith(text, <<"-", " ">>)
  /\ ~StartsWith(text, <<"#">>)
  /\ ~IsRule(text)

\* the last k + 2 lines consumed are k list items, a blank line and a
\* paragraph line, and no block was open before the first of them
ListRunEnded(k) ==
  /\ Scanned
  /\ k >= 1
  /\ Len(lines) >= k + 2
  /\ LET n == Len(lines)
         first == n - k - 1
     IN  /\ ~hist[first].in_code_block
         /\ ~hist[first].in_table
         /\ ~hist[first].in_list
         /\ \A j \in first..(n - 2) : StartsWith(Strip(lines[j]), <<"-", " ">>)
         /\ Strip(lines[n - 1]) = <<>>
         /\ ParagraphText(Strip(lines[n]))

\* C7: such a run yields '<ul>', the k items in source order, '</ul>', and
\* only then the paragraph.
C7_ListRun ==
  \A k \in 1..MaxLines :
    ListRunEnded(k) =>
      LET n == Len(lines)
          first == n - k - 1
      IN  SubSeq(out, hist[first].out_len + 1, Len(out))
            = <<UlOpen>>
              \o [j \in 1..k |-> Li(Drop(Strip(lines[first + j - 1]), 2))]
              \o <<UlClose, Para(Strip(lines[n]))>>

\* two items, a blank line and a paragraph have been rendered
C7_Witness == ListRunEnded(2) /\ ~in_list /\ out[Len(out) - 1] = UlClose

\* ---- C8 ------------------------------------------------------------------
RuleChars == {"-", "*", " "}
OnlyRuleChars(text) == \A i \in 1..Len(text) : text[i] \in RuleChars

\* C8: outside a code block a line that trims to '---' is rendered as a
\* rule, and a line that trims to something starting with '- ' is rendered
\* as a list item and emits no rule.
C8_ListItemBeforeRule ==
  (Scanned /\ ~prev.in_code_block) =>
    /\ stripped_line = <<"-", "-", "-">> =>
         Added # <<>> /\ Added[Len(Added)] = Hr
    /\ StartsWith(stripped_line, <<"-", " ">>) =>
         /\ Added # <<>>
         /\ Added[Len(Added)] = Li(Drop(stripped_line, 2))
         /\ \A i \in 1..Len(Added) : Added[i] # Hr

\* a line of dashes and spaces only, at least 3 long, became a list item
C8_Witness ==
  /\ Scanned
  /\ ~prev.in_code_block
  /\ StartsWith(stripped_line, <<"-", " ">>)
  /\ Len(stripped_line) >= 3
  /\ OnlyRuleChars(stripped_line)
  /\ Added[Len(Added)] = Li(Drop(stripped_line, 2))

\* ---- C9 ------------------------------------------------------------------
\* the last step consumed a line outside a code block that is no fence
PlainScanned ==
  Scanned /\ ~prev.in_code_block /\ ~StartsWith(stripped_line, Fence)

\* not a table row, list item or heading; 3 or more characters, all of them
\* dashes, asterisks or spaces
RuleCandidate(text) ==
  /\ ~StartsWith(text, <<"|">>)
  /\ ~StartsWith(text, <<"-", " ">>)
  /\ ~StartsWith(text, <<"#">>)
  /\ Len(text) >= 3
  /\ OnlyRuleChars(text)

\* the last step emitted '<hr>', after the closing of an open table and an
\* open list only
RuleEmitted ==
  /\ Len(Added) = (IF prev.in_table THEN 1 ELSE 0)
                  + (IF prev.in_list THEN 1 ELSE 0) + 1
  /\ Added[Len(Added)] = Hr
  /\ \A i \in 1..(Len(Added) - 1) : Added[i] # Hr

EmitsNoRule == \A i \in 1..Len(Added) : Added[i] # Hr

\* C9 as stated: every such line emits a rule, and no other line does.
C9_AsStated ==
  PlainScanned =>
    IF RuleCandidate(stripped_line) THEN RuleEmitted ELSE EmitsNoRule

\* C9 as amended: the line must also start with '---' or '***'.
C9_RuleLines ==
  PlainScanned =>
    IF /\ RuleCandidate(stripped_line)
       /\ \/ StartsWith(stripped_line, <<"-", "-", "-">>)
          \/ StartsWith(stripped_line, <<"*", "*", "*">>)
    THEN RuleEmitted
    ELSE EmitsNoRule

\* a rule longer than its three-character prefix, holding a space and both
\* rule characters, was emitted
C9_Witness ==
  /\ PlainScanned
  /\ RuleEmitted
  /\ Len(stripped_line) > 3
  /\ \E i \in 1..Len(stripped_line) : stripped_line[i] = " "

\* ---- C10 -----------------------------------------------------------------
\* C10 as stated: a line appends one fragment or none.
C10_AsStated == Scanned => Len(Added) <= 1

\* what the line itself is, outside a code block
OutsideCode == ~prev.in_code_block /\ ~StartsWith(stripped_line, Fence)
RowLine == OutsideCode /\ StartsWith(stripped_line, <<"|">>)
ItemLine == OutsideCode /\ ~RowLine /\ StartsWith(stripped_line, <<"-", " ">>)

\* C10 as amended: a line appends at most three fragments: at most one for
\* the line itself (none for a blank line or a table row), after at most one
\* rendered table (the pending rows) and at most one list fragment ('<ul>'
\* or '</ul>').
C10_FragmentsPerLine ==
  Scanned =>
    LET table == IF OutsideCode /\ ~RowLine /\ prev.in_table
                 THEN <<render_table(prev.table_buffer)>> ELSE <<>>
        list == IF OutsideCode /\ ~RowLine /\ ItemLine # prev.in_list
                THEN <<IF ItemLine THEN UlOpen ELSE UlClose>> ELSE <<>>
        own == IF RowLine \/ (OutsideCode /\ stripped_line = <<>>) THEN 0 ELSE 1
    IN  /\ Len(Added) = Len(table) + Len(list) + own
        /\ Len(Added) <= 3
        /\ SubSeq(Added, 1, Len(table) + Len(list)) = table \o list

\* one line appended three fragments: a table, '<ul>' and an item
C10_Witness ==
  /\ Scanned
  /\ Len(Added) = 3
  /\ Added[2] = UlOpen

\* ---- headings: what format_inline was given and what it returned ---------
\* the last step rendered a heading
HeadingScanned ==
  Scanned /\ ~prev.in_code_block /\ StartsWith(stripped_line, <<"#">>)

\* the length of the run of '#' a text starts with
HashRun(text) ==
  CHOOSE n \in 0..Len(text) :
    /\ \A i \in 1..n : text[i] = "#"
    /\ n = Len(text) \/ text[n + 1] # "#"

\* the heading fragment, the text handed to format_inline and the text it
\* returned (the fragment without its opening and closing tag)
HeadingFragment == Added[Len(Added)]
InlineInput == Strip(Drop(stripped_line, HashRun(stripped_line)))
InlineOutput == SubSeq(HeadingFragment, 4, Len(HeadingFragment) - 3)

\* ---- C11 -----------------------------------------------------------------
InlineMarkup == {"*", Tick, "[", "]", "(", ")"}
PlainText(text) == \A i \in 1..Len(text) : text[i] \notin InlineMarkup

\* C11: format_inline returns a text holding none of the markup characters
\* unchanged, so formatting the result again changes nothing.
C11_PlainTextUnchanged ==
  (HeadingScanned /\ PlainText(InlineInput)) =>
    /\ InlineOutput = InlineInput
    /\ format_inline(InlineOutput) = InlineOutput

\* a plain text of letters and underscores went through format_inline
C11_Witness ==
  /\ HeadingScanned
  /\ PlainText(InlineInput)
  /\ Len(InlineInput) >= 3
  /\ \E i \in 1..Len(InlineInput) : InlineInput[i] = "_"
  /\ \E i \in 1..Len(InlineInput) : InlineInput[i] = "a"
  /\ InlineOutput = InlineInput

\* ---- C12 -----------------------------------------------------------------
\* C12: a missing input file ends main() before any line is scanned and
\* with the output file as it was; the output file changes only in the step
\* that ends a completed scan, which writes the flushed document to it.
C12_NoOutputOnMissingInput ==
  [][ /\ pc' = "error" =>
           /\ pc = "start"
           /\ lines' = <<>> /\ hist' = <<>> /\ out' = <<>>
           /\ output_file' = output_file
      /\ pc = "error" => UNCHANGED vars
      /\ output_file' # output_file =>
           /\ pc = "scan" /\ pc' = "done"
           /\ out'[Len(out')] = HTML_FOOTER
           /\ output_file' = Join(out') ]_vars

\* the run ended on the missing input and an older output file is untouched
C12_Witness ==
  /\ pc = "error"
  /\ output_file = OldFile
  /\ lines = <<>>

\* ---- C13 -----------------------------------------------------------------
\* the cell rule of the claim: one leading and one trailing separator are
\* removed, the rest is split on '|' and every cell is trimmed
StripOneBar(row) ==
  LET a == IF row # <<>> /\ Head(row) = "|" THEN Tail(row) ELSE row
  IN  IF a # <<>> /\ a[Len(a)] = "|" THEN SubSeq(a, 1, Len(a) - 1) ELSE a

RowCells(row) ==
  LET parts == Split(StripOneBar(Strip(row)), "|")
  IN  [i \in 1..Len(parts) |-> Strip(parts[i])]

RECURSIVE ThCells(_)
ThCells(cells) ==
  IF cells = <<>> THEN <<>>
  ELSE <<"<th>">> \o format_inline(Head(cells)) \o <<"</th>">>
       \o ThCells(Tail(cells))

\* C13: the header row yields one header cell per cell of the row, empty
\* cells included, so a data row with as many cells as the header row has
\* as many <td> as the header has <th>.
C13_HeaderCellsLikeDataCells ==
  TableFlushed =>
    LET F == FlushedTable
        rows == FlushedRows
        head == Between(F, "<thead><tr>", "</tr></thead>", 1)
        n == Cardinality(Positions(F, "<tr>"))
    IN  /\ head = ThCells(RowCells(rows[1]))
        /\ \A k \in 1..n :
             LET row == rows[Len(rows) - n + k]
                 body == Between(F, "<tr>", "</tr>", k)
             IN  Len(RowCells(row)) = Len(RowCells(rows[1])) =>
                   Cardinality(Positions(body, "<td>"))
                     = Cardinality(Positions(head, "<th>"))

\* ---- C14 -----------------------------------------------------------------
RECURSIVE Flatten(_)
Flatten(texts) ==
  IF texts = <<>> THEN <<>> ELSE Head(texts) \o Flatten(Tail(texts))

\* the document is one code block: a fence, lines that are no fence, a fence
OneCodeBlock ==
  /\ pc = "done"
  /\ Len(lines) >= 3
  /\ \A i \in 1..Len(lines) :
       StartsWith(Strip(lines[i]), Fence) <=> i \in {1, Len(lines)}

\* C14: in the written document the text between the opening and the
\* closing element of the block is the escaped source lines, with the line
\* breaks of the source and no other (the one after the opening element
\* apart).
C14_CodeBlockVerbatim ==
  OneCodeBlock =>
    LET body == Between(output_file, "\">", "</code></pre>", 1)
        source == Flatten([i \in 1..(Len(lines) - 2) |-> Escape(lines[i + 1])])
    IN  body = source \/ body = <<"\n">> \o source

\* ---- C15 -----------------------------------------------------------------
\* C15: a heading line outside a code block appends the rendered table if
\* rows are pending and '</ul>' if a list is open, then the heading, and
\* leaves no list and no table open and the buffer empty.
C15_HeadingClosesBlocks ==
  HeadingScanned =>
    LET closers == SubSeq(Added, 1, Len(Added) - 1)
        pending == prev.table_buffer # <<>>
    IN  /\ Added # <<>>
        /\ HeadingFragment[1] = "<h"
        /\ Len(closers) = (IF pending THEN 1 ELSE 0)
                          + (IF prev.in_list THEN 1 ELSE 0)
        /\ pending =>
             \E i \in 1..Len(closers) :
               closers[i] = render_table(prev.table_buffer)
        /\ prev.in_list => \E i \in 1..Len(closers) : closers[i] = UlClose
        /\ ~in_list
        /\ ~in_table
        /\ table_buffer = <<>>

\* a heading closed a list and a pending table at once
C15_Witness ==
  /\ HeadingScanned
  /\ prev.in_list
  /\ prev.table_buffer # <<>>
  /\ Len(Added) = 3
  /\ ~in_list /\ ~in_table

\* ---- C18 -----------------------------------------------------------------
\* C18: in_table is true exactly when table_buffer is not empty, in every
\* state and so in every state an iteration starts from: the branch of line
\* 265 (rows buffered while in_table is false) is never taken.
C18_TableFlagMatchesBuffer ==
  /\ in_table <=> table_buffer # <<>>
  /\ \A i \in 1..Len(hist) :
       /\ hist[i].in_table <=> hist[i].table_buffer # <<>>
       /\ ~(~hist[i].in_table /\ hist[i].table_buffer # <<>>
            /\ StartsWith(Strip(hist[i].line), <<"|">>))

\* a second table was started after a first one had been flushed
C18_Witness ==
  /\ Scanned
  /\ RowLine
  /\ ~prev.in_table
  /\ \E i \in 1..Len(hist) : hist[i].in_table
  /\ Len(table_buffer) = 1

\* ---- C19 -----------------------------------------------------------------
IsCodeOpen(frag) == frag # <<>> /\ frag[1] = "<pre><code class=\"language-"
IsLi(frag) == frag # <<>> /\ frag[1] = "<li>"

\* the fragments read as brackets: the blocks left open after frags, the
\* innermost last, or <<"unbalanced">> once a fragment closes a block that
\* is not the innermost open one or an item lies outside every list
RECURSIVE OpenBlocks(_, _)
OpenBlocks(frags, stack) ==
  IF frags = <<>> THEN stack
  ELSE LET f == Head(frags)
           top == IF stack = <<>> THEN "none" ELSE stack[Len(stack)]
           pop == SubSeq(stack, 1, Len(stack) - 1)
       IN  IF f = UlOpen THEN OpenBlocks(Tail(frags), Append(stack, "ul"))
           ELSE IF IsCodeOpen(f)
                THEN OpenBlocks(Tail(frags), Append(stack, "code"))
           ELSE IF f = UlClose
                THEN IF top = "ul" THEN OpenBlocks(Tail(frags), pop)
                     ELSE <<"unbalanced">>
           ELSE IF f = CodeClose
                THEN IF top = "code" THEN OpenBlocks(Tail(frags), pop)
                     ELSE <<"unbalanced">>
           ELSE IF IsLi(f) /\ \A i \in 1..Len(stack) : stack[i] # "ul"
                THEN <<"unbalanced">>
           ELSE OpenBlocks(Tail(frags), stack)

\* C19: the final fragment list is balanced and properly nested: every
\* '<ul>' and every code opening has its own later closing fragment, no
\* closing fragment comes without its opener, every '<li>' lies inside a
\* list, and a code block opened inside a list is closed before the list.
C19_BalancedFragments == pc = "done" => OpenBlocks(out, <<>>) = <<>>

\* the final list holds a code block opened and closed inside a list
C19_Witness ==
  /\ pc = "done"
  /\ \E i \in 1..Len(out) : \E j \in (i + 1)..Len(out) :
       /\ out[i] = UlOpen
       /\ IsCodeOpen(out[j])
       /\ \A m \in i..j : out[m] # UlClose
       /\ \E k \in (j + 1)..(Len(out) - 1) :
            out[k] = CodeClose /\ out[k + 1] = UlClose

\* ---- C16 -----------------------------------------------------------------
\* the text the bold step hands to the italic step, and what the italic
\* step makes of it; the italic step replaces each delimiter by one tag, so
\* position i of its result is position i of its argument
AfterBold == BoldFrom(InlineInput, 1)
AfterItalic == ItalicFrom(AfterBold, 1)

StarBefore(i) == i > 1 /\ AfterBold[i - 1] = "*"
StarAfter(i) == i < Len(AfterBold) /\ AfterBold[i + 1] = "*"

\* the emphasis tags of the heading are those the italic step produced
EmTagsKept ==
  /\ Len(AfterItalic) = Len(AfterBold)
  /\ \A tag \in {"<em>", "</em>"} :
       /\ Cardinality(Positions(InlineOutput, tag))
            = Cardinality(Positions(AfterItalic, tag))
       /\ \A i \in Positions(AfterItalic, tag) : AfterBold[i] = "*"

\* C16 as stated: neither the opening nor the closing marker of an <em>
\* span touches another asterisk.
C16_AsStated ==
  HeadingScanned =>
    /\ EmTagsKept
    /\ \A i \in 1..Len(AfterItalic) :
         AfterItalic[i] \in {"<em>", "</em>"} =>
           ~StarBefore(i) /\ ~StarAfter(i)

\* C16 as amended: the opening marker touches no other asterisk and the
\* closing marker is not preceded by one; it may be followed by one.
C16_ItalicMarkers ==
  HeadingScanned =>
    /\ EmTagsKept
    /\ \A i \in 1..Len(AfterItalic) :
         /\ AfterItalic[i] = "<em>" => ~StarBefore(i) /\ ~StarAfter(i)
         /\ AfterItalic[i] = "</em>" => ~StarBefore(i)

\* '*a**' was formatted: the span is produced and its closing marker was
\* followed by an asterisk
C16_Witness ==
  /\ HeadingScanned
  /\ InlineInput = <<"*", "a", "*", "*">>
  /\ InlineOutput = <<"<em>", "a", "</em>", "*">>

\* ---- C17 -----------------------------------------------------------------
\* C17: a heading line that starts with a run of exactly n '#' yields a
\* heading of level n, whatever n is, holding the formatted rest of the
\* line with the surrounding whitespace removed.
C17_HeadingLevel ==
  HeadingScanned =>
    LET n == HashRun(stripped_line)
    IN  /\ n >= 1
        /\ HeadingFragment
             = <<"<h", ToString(n), ">">>
               \o format_inline(Strip(Drop(stripped_line, n)))
               \o <<"</h", ToString(n), ">">>

\* a heading of level 7 with formatted content was emitted
C17_Witness ==
  /\ HeadingScanned
  /\ HashRun(stripped_line) = 7
  /\ HeadingFragment = <<"<h", "7", ">", "<em>", "a", "</em>", "</h", "7", ">">>

====
